---- MODULE Spec2Model ----
(***************************************************************************)
(* The /tts request handler of app.py and the three synthesis functions it *)
(* drives: english_online_tts (gTTS + file cache), generate_english_       *)
(* offline_tts (pyttsx3 worker thread) and generate_urdu_tts (gTTS, or     *)
(* pyttsx3 with an inner gTTS step).  The file system, the cache lock and  *)
(* the abandoned pyttsx3 worker threads are shared state; the network and  *)
(* the engines are the environment.                                        *)
(***************************************************************************)
EXTENDS Integers, Sequences, FiniteSets, TLC

VARIABLES req, response, fs, cache_lock, abandoned, hist, job

vars == <<req, response, fs, cache_lock, abandoned, hist, job>>

(***************************************************************************)
(* Bounds of the model (not program constants).                            *)
(***************************************************************************)
MaxPad == 1
ShortLen == 11
NumThreads == 2
MaxText == 3
MaxPages == 2
MaxOcrLen == 2
MaxRetriesBound == 4

(***************************************************************************)
(* Program constants.                                                      *)
(***************************************************************************)
MaxChars == 5000
MinSizeApp == 1000
MinSizeOnline == 500
MinSizeOffline == 1000
MinSizeUrduLocal == 1000
MinSizeUrdu == 500
EnglishOnlineRetries == 3
EnglishOfflineRetries == 2
UrduRetries == 2

Reqs == 1..NumThreads
\* No document or text is in the extraction and language stages.
NoJob == [op |-> "none"]
Engines == {"en_online", "en_offline", "ur_online", "ur_offline"}
Languages == {"en", "ur"}
Modes == {"online", "offline"}

(***************************************************************************)
(* Texts.  A text is a run of `lead` whitespace characters, `body`         *)
(* characters that begin and end with a non-blank, and `trail` whitespace  *)
(* characters.  body = 0 is a blank text.                                  *)
(***************************************************************************)
Bodies == {0, ShortLen, MaxChars, MaxChars + 1}
TextInputs == [lead : 0..MaxPad, body : Bodies, trail : 0..MaxPad]
TextLen(t) == t.lead + t.body + t.trail
Strip(t) == [lead |-> 0, body |-> t.body, trail |-> 0]
NoText == [lead |-> 0, body |-> 0, trail |-> 0]

(***************************************************************************)
(* Files.  A path is <<stem, id, extension>>; the id is the cache key for  *)
(* the two files english_online_tts names after the text, and the          *)
(* request's unique_id (the request itself) for the others.                *)
(***************************************************************************)
GenerateCacheKey(t) == t.body
Keys == {GenerateCacheKey(Strip(t)) : t \in {x \in TextInputs : x.body > 0 /\ x.body <= MaxChars}}
CachedFile(t) == <<"tts_cache_english", GenerateCacheKey(t), "mp3">>
OutputPath(t) == <<"english_online", GenerateCacheKey(t), "mp3">>
UrduOnlineFile(r) == <<"urdu_online", r, "mp3">>
UrduOfflineFile(r) == <<"urdu_offline", r, "wav">>
EnglishOfflineFile(r) == <<"english_offline", r, "wav">>
WavOf(p) == IF p[3] = "mp3" THEN <<p[1], p[2], "wav">> ELSE p
Mp3Of(p) == IF p[3] = "wav" THEN <<p[1], p[2], "mp3">> ELSE p
NoPath == <<"none", 0, "none">>
RequestPaths(r) == {UrduOnlineFile(r), UrduOfflineFile(r), Mp3Of(UrduOfflineFile(r)), EnglishOfflineFile(r)}
Paths == ({"tts_cache_english", "english_online"} \X Keys \X {"mp3"}) \cup UNION {RequestPaths(r) : r \in Reqs}

Sizes == {0, MinSizeOnline - 1, MinSizeOnline, MinSizeApp - 1, MinSizeApp, MinSizeApp + 1}
NoFile == [exists |-> FALSE, size |-> 0, by |-> "none", late |-> FALSE, silent |-> FALSE]
File(s, e, l, q) == [exists |-> TRUE, size |-> s, by |-> e, late |-> l, silent |-> q]
Exists(p) == fs[p].exists
GetSize(p) == fs[p].size
IsAudioSilent(p) == fs[p].silent
Remove(f, p) == IF p \in DOMAIN f /\ f[p].exists THEN [f EXCEPT ![p] = NoFile] ELSE f

(***************************************************************************)
(* What a pyttsx3 worker can leave at its wav path: nothing, or a file of  *)
(* any size; a file that is large enough may still be silent.              *)
(***************************************************************************)
LocalOutputs(e, l) == {NoFile} \cup {File(s, e, l, FALSE) : s \in Sizes} \cup {File(MinSizeApp + 1, e, l, TRUE)}

(***************************************************************************)
(* One request: the locals of text_to_speech and of the synthesis function *)
(* it is in.                                                               *)
(***************************************************************************)
Frame0 == [pc |-> "idle", text |-> NoText, language |-> "en", mode |-> "online", audio_path |-> NoPath, fallback_attempted |-> FALSE, fn_mode |-> "online", attempt |-> 0, output_file |-> NoPath, wav_file |-> NoPath, mp3_file |-> NoPath, overdue |-> FALSE, copied |-> NoFile]
NoResponse == [kind |-> "none", status |-> 0, error |-> "none", fallback |-> FALSE, artifact |-> NoFile]
Hist0 == [order |-> <<>>, tried |-> {}, first |-> "none", reach |-> 0, unreachable |-> FALSE, lookups |-> 0, hit |-> FALSE, chars |-> 0, again |-> FALSE]

(***************************************************************************)
(* Bookkeeping of what a request did (history, read only by properties):   *)
(* the engines invoked in order, the engines whose attempt loop or         *)
(* pre-flight was entered and the first of them, the reachability checks   *)
(* and whether one of them failed,                                         *)
(* the cache lookups and whether the lookup hit, the number of characters  *)
(* of the request's text between its first and its last non-blank          *)
(* character, and whether the request repeats the (text, language) of a    *)
(* request that succeeded.                                                 *)
(***************************************************************************)
Tried(h, e) == [h EXCEPT !.tried = @ \cup {e}, !.first = IF @ = "none" THEN e ELSE @]
Invoked(h, e) == [Tried(h, e) EXCEPT !.order = Append(@, e)]
Reached(h, ok) == [h EXCEPT !.reach = @ + 1, !.unreachable = @ \/ ~ok]
LookedUp(h) == [h EXCEPT !.lookups = @ + 1]
Hit(h) == [h EXCEPT !.hit = TRUE]
Calls(r, e) == Cardinality({i \in DOMAIN hist[r].order : hist[r].order[i] = e})

(***************************************************************************)
(* text_to_speech, app.py                                                  *)
(***************************************************************************)
ErrorResponse(st, err, fb) == [kind |-> "error", status |-> st, error |-> err, fallback |-> fb, artifact |-> NoFile]
OkResponse(f, fb) == [kind |-> "ok", status |-> 200, error |-> "none", fallback |-> fb, artifact |-> f]

\* The call of generate_urdu_tts(text, md, file): the state at the loop head.
EnterUrdu(f, md, file) == [f EXCEPT !.pc = "ur_try", !.fn_mode = md, !.attempt = 0, !.output_file = file, !.wav_file = NoPath, !.mp3_file = NoPath, !.overdue = FALSE]
\* The call of generate_english_offline_tts(text, file).
EnterEnglishOffline(f, file) == [f EXCEPT !.pc = "ef_try", !.attempt = 0, !.output_file = file, !.wav_file = NoPath, !.overdue = FALSE]
\* The call of english_online_tts(text, OUTPUT_FOLDER).
EnterEnglishOnline(f) == [f EXCEPT !.pc = "eo_lock", !.attempt = 0, !.output_file = OutputPath(f.text), !.overdue = FALSE]

\* Dispatch that does not look at the mode.
DispatchOnlineOnly(f, r) ==
    IF f.language = "ur"
    THEN EnterUrdu(f, "online", UrduOnlineFile(r))
    ELSE EnterEnglishOnline(f)

\* Lines 206-230: the engine selected by (language, mode).
Dispatch(f, r) ==
    IF f.language = "ur"
    THEN IF f.mode = "online"
         THEN EnterUrdu(f, "online", UrduOnlineFile(r))
         ELSE EnterUrdu(f, f.mode, UrduOfflineFile(r))
    ELSE IF f.mode = "online"
         THEN EnterEnglishOnline(f)
         ELSE EnterEnglishOffline(f, EnglishOfflineFile(r))

TooLongOffByOne(t) == TextLen(t) >= MaxChars
TooLong(t) == TextLen(t) > MaxChars

\* Lines 188-205: the request is read, trimmed and validated.
Receive(r, raw, lang, md) ==
    /\ req[r].pc = "idle"
    /\ UNCHANGED job
    /\ LET t == Strip(raw)
           f == [req[r] EXCEPT !.text = t, !.language = lang, !.mode = md]
       IN IF TextLen(t) = 0
          THEN /\ req' = [req EXCEPT ![r] = [f EXCEPT !.pc = "done"]]
               /\ response' = [response EXCEPT ![r] = ErrorResponse(400, "no_text", FALSE)]
          ELSE IF TooLong(t)
          THEN /\ req' = [req EXCEPT ![r] = [f EXCEPT !.pc = "done"]]
               /\ response' = [response EXCEPT ![r] = ErrorResponse(400, "too_long", FALSE)]
          ELSE /\ req' = [req EXCEPT ![r] = Dispatch(f, r)]
               /\ UNCHANGED response
    /\ hist' = [hist EXCEPT ![r].chars = raw.body]
    /\ UNCHANGED <<fs, cache_lock, abandoned>>

\* An exception that reaches the outer handler (lines 288-300) before
\* audio_path was assigned: nothing is removed, the error is returned.
RaiseToApp(r, f) ==
    /\ req' = [req EXCEPT ![r] = [f EXCEPT !.pc = "done"]]
    /\ response' = [response EXCEPT ![r] = ErrorResponse(500, "engine_failed", f.fallback_attempted)]

AppThresholdOfEngine == MinSizeOnline
AppThreshold == MinSizeApp

\* Lines 232-241 and 288-300: the final validation of audio_path.
Validate(r) ==
    /\ req[r].pc = "validate"
    /\ UNCHANGED job
    /\ LET p == req[r].audio_path
           fb == req[r].fallback_attempted
       IN IF ~Exists(p)
          THEN /\ response' = [response EXCEPT ![r] = ErrorResponse(500, "not_generated", fb)]
               /\ req' = [req EXCEPT ![r].pc = "done"]
               /\ UNCHANGED fs
          ELSE IF GetSize(p) = 0
          THEN /\ response' = [response EXCEPT ![r] = ErrorResponse(500, "empty", fb)]
               /\ req' = [req EXCEPT ![r].pc = "done"]
               /\ fs' = Remove(fs, p)
          ELSE IF GetSize(p) < AppThreshold
          THEN /\ response' = [response EXCEPT ![r] = ErrorResponse(500, "corrupted", fb)]
               /\ req' = [req EXCEPT ![r].pc = "done"]
               /\ fs' = Remove(fs, p)
          ELSE /\ response' = [response EXCEPT ![r] = OkResponse(fs[p], fb)]
               /\ req' = [req EXCEPT ![r].pc = "stream"]
               /\ UNCHANGED fs
    /\ UNCHANGED <<cache_lock, abandoned, hist>>

\* Lines 244-262: the response body is streamed, then the file is removed.
Stream(r) ==
    /\ req[r].pc = "stream"
    /\ UNCHANGED job
    /\ req' = [req EXCEPT ![r].pc = "done"]
    /\ fs' = Remove(fs, req[r].audio_path)
    /\ UNCHANGED <<response, cache_lock, abandoned, hist>>

\* The next request of this thread: a fresh unique_id (line 203), so the
\* files and abandoned workers of the finished request are out of its reach.
NextRequest(r) ==
    /\ req[r].pc = "done"
    /\ UNCHANGED job
    /\ req' = [req EXCEPT ![r] = Frame0]
    /\ response' = [response EXCEPT ![r] = NoResponse]
    /\ hist' = [hist EXCEPT ![r] = Hist0]
    /\ fs' = [p \in Paths |-> IF p \in RequestPaths(r) THEN NoFile ELSE fs[p]]
    /\ abandoned' = abandoned \ RequestPaths(r)
    /\ UNCHANGED cache_lock

\* A second POST /tts with the text and the language of the request that has
\* just been answered with status 200, in mode md: lines 188-230 again.
Repeat(r, md) ==
    /\ req[r].pc = "done"
    /\ UNCHANGED job
    /\ response[r].kind = "ok"
    /\ LET f == [Frame0 EXCEPT !.text = req[r].text, !.language = req[r].language, !.mode = md]
       IN req' = [req EXCEPT ![r] = Dispatch(f, r)]
    /\ response' = [response EXCEPT ![r] = NoResponse]
    /\ hist' = [hist EXCEPT ![r] = [Hist0 EXCEPT !.chars = hist[r].chars, !.again = TRUE]]
    /\ fs' = [p \in Paths |-> IF p \in RequestPaths(r) THEN NoFile ELSE fs[p]]
    /\ abandoned' = abandoned \ RequestPaths(r)
    /\ UNCHANGED cache_lock

(***************************************************************************)
(* english_online_tts, tts_english_online.py                               *)
(***************************************************************************)
\* EoLock with a lock that does not make the caller wait.
EoLockNoWait(r) ==
    /\ req[r].pc = "eo_lock"
    /\ UNCHANGED job
    /\ cache_lock' = r
    /\ req' = [req EXCEPT ![r].pc = "eo_lookup"]
    /\ UNCHANGED <<response, fs, abandoned, hist>>

\* Line 49: with cache_lock (entry).
EoLock(r) ==
    /\ req[r].pc = "eo_lock"
    /\ UNCHANGED job
    /\ cache_lock = 0
    /\ cache_lock' = r
    /\ req' = [req EXCEPT ![r].pc = "eo_lookup"]
    /\ UNCHANGED <<response, fs, abandoned, hist>>

CacheHit(p) == Exists(p) /\ GetSize(p) > 0

\* EoLookup that keeps the lock on a miss.
EoLookupKeepsLock(r) ==
    /\ req[r].pc = "eo_lookup"
    /\ UNCHANGED job
    /\ cache_lock = r
    /\ hist' = [hist EXCEPT ![r] = LookedUp(@)]
    /\ IF CacheHit(CachedFile(req[r].text))
       THEN req' = [req EXCEPT ![r].pc = "eo_copy"]
       ELSE req' = [req EXCEPT ![r].pc = "eo_reach"]
    /\ UNCHANGED cache_lock
    /\ UNCHANGED <<response, fs, abandoned>>

\* Line 50: the test of the entry; a miss leaves the lock.
EoLookup(r) ==
    /\ req[r].pc = "eo_lookup"
    /\ UNCHANGED job
    /\ cache_lock = r
    /\ hist' = [hist EXCEPT ![r] = LookedUp(@)]
    /\ IF CacheHit(CachedFile(req[r].text))
       THEN /\ req' = [req EXCEPT ![r].pc = "eo_copy"]
            /\ UNCHANGED cache_lock
       ELSE /\ req' = [req EXCEPT ![r].pc = "eo_reach"]
            /\ cache_lock' = 0
    /\ UNCHANGED <<response, fs, abandoned>>

\* EoCopy without the return of line 53: the hit is copied and the function goes on.
EoCopyNoReturn(r) ==
    /\ req[r].pc = "eo_copy"
    /\ UNCHANGED job
    /\ cache_lock = r
    /\ cache_lock' = 0
    /\ fs' = [fs EXCEPT ![req[r].output_file] = fs[CachedFile(req[r].text)]]
    /\ hist' = [hist EXCEPT ![r] = Hit(@)]
    /\ req' = [req EXCEPT ![r].pc = "eo_reach"]
    /\ UNCHANGED <<response, abandoned>>

\* Lines 51-53: the entry is copied to output_path and returned; the lock is
\* left.  shutil.copy2 raises if the entry is no longer there: the exception
\* leaves english_online_tts and the handler of app.py lines 223-227 calls
\* the offline engine.
EoCopy(r) ==
    /\ req[r].pc = "eo_copy"
    /\ UNCHANGED job
    /\ cache_lock = r
    /\ cache_lock' = 0
    /\ LET cached_file == CachedFile(req[r].text)
           output_path == req[r].output_file
       IN IF Exists(cached_file)
          THEN /\ fs' = [fs EXCEPT ![output_path] = fs[cached_file]]
               /\ hist' = [hist EXCEPT ![r] = Hit(@)]
               /\ req' = [req EXCEPT ![r].pc = "validate", ![r].audio_path = output_path]
          ELSE /\ req' = [req EXCEPT ![r] = EnterEnglishOffline([@ EXCEPT !.fallback_attempted = TRUE], EnglishOfflineFile(r))]
               /\ UNCHANGED <<fs, hist>>
    /\ UNCHANGED <<response, abandoned>>

\* Lines 56-57: the reachability pre-flight; on failure the exception goes to
\* the handler of app.py lines 223-227, which calls the offline engine.
EoReach(r, ok) ==
    /\ req[r].pc = "eo_reach"
    /\ UNCHANGED job
    /\ hist' = [hist EXCEPT ![r] = Reached(Tried(@, "en_online"), ok)]
    /\ IF ok
       THEN req' = [req EXCEPT ![r].pc = "eo_try"]
       ELSE req' = [req EXCEPT ![r] = EnterEnglishOffline([@ EXCEPT !.fallback_attempted = TRUE], EnglishOfflineFile(r))]
    /\ UNCHANGED <<response, fs, cache_lock, abandoned>>

\* Lines 63-67: gTTS.save opens (truncates) output_path and starts the download.
EoTry(r) ==
    /\ req[r].pc = "eo_try"
    /\ UNCHANGED job
    /\ hist' = [hist EXCEPT ![r] = Invoked(@, "en_online")]
    /\ fs' = [fs EXCEPT ![req[r].output_file] = File(0, "en_online", FALSE, FALSE)]
    /\ req' = [req EXCEPT ![r].pc = "eo_save", ![r].overdue = FALSE]
    /\ UNCHANGED <<response, cache_lock, abandoned>>

OnlineTooSmall(s) == s < MinSizeOnline

\* Lines 70-82: the elapsed-time check and the validation of the file.
EoCheck(r) ==
    /\ req[r].pc = "eo_check"
    /\ UNCHANGED job
    /\ LET output_path == req[r].output_file
       IN IF \/ req[r].overdue
             \/ ~Exists(output_path)
             \/ GetSize(output_path) = 0
             \/ OnlineTooSmall(GetSize(output_path))
          THEN req' = [req EXCEPT ![r].pc = "eo_except"]
          ELSE req' = [req EXCEPT ![r].pc = "eo_put_lock"]
    /\ UNCHANGED <<response, fs, cache_lock, abandoned, hist>>

\* A file that shutil.copy2 has opened and not yet written to the end.
Unfinished(f) == [f EXCEPT !.size = 1, !.by = "copy2"]

\* Lines 85-88: with cache_lock (entry); shutil.copy2 opens output_path and
\* cached_file and starts to copy (a copy that cannot open output_path raises
\* and writes nothing).
EoPutLock(r) ==
    /\ req[r].pc = "eo_put_lock"
    /\ UNCHANGED job
    /\ cache_lock = 0
    /\ cache_lock' = r
    /\ LET output_path == req[r].output_file
           cached_file == CachedFile(req[r].text)
       IN IF Exists(output_path)
          THEN /\ fs' = [fs EXCEPT ![cached_file] = Unfinished(fs[output_path])]
               /\ req' = [req EXCEPT ![r].pc = "eo_put", ![r].copied = fs[output_path]]
          ELSE /\ req' = [req EXCEPT ![r].pc = "eo_put"]
               /\ UNCHANGED fs
    /\ UNCHANGED <<response, abandoned, hist>>

\* EoPut with a copy that writes nothing more and whose error is ignored.
EoPutNoCopy(r) ==
    /\ req[r].pc = "eo_put"
    /\ UNCHANGED job
    /\ cache_lock = r
    /\ cache_lock' = 0
    /\ req' = [req EXCEPT ![r].pc = "validate", ![r].audio_path = req[r].output_file, ![r].copied = NoFile]
    /\ UNCHANGED <<response, fs, abandoned, hist>>

\* Lines 88-92: the copy to the cache is complete (a failing copy is ignored),
\* the lock is left and output_path is returned.  The entry holds what the
\* copy read: the file as it was opened, or as another request rewrote it
\* in the meantime.
EoPut(r) ==
    /\ req[r].pc = "eo_put"
    /\ UNCHANGED job
    /\ cache_lock = r
    /\ cache_lock' = 0
    /\ LET output_path == req[r].output_file
           cached_file == CachedFile(req[r].text)
           read == IF Exists(output_path) THEN {req[r].copied, fs[output_path]} ELSE {req[r].copied}
       IN /\ \E src \in read : fs' = IF req[r].copied.exists THEN [fs EXCEPT ![cached_file] = src] ELSE fs
          /\ req' = [req EXCEPT ![r].pc = "validate", ![r].audio_path = output_path, ![r].copied = NoFile]
    /\ UNCHANGED <<response, abandoned, hist>>

\* Lines 94-110: the failed attempt's file is removed; the loop goes on or
\* the function raises, which app.py lines 223-227 turn into the fallback.
EoExcept(r) ==
    /\ req[r].pc = "eo_except"
    /\ UNCHANGED job
    /\ fs' = Remove(fs, req[r].output_file)
    /\ IF req[r].attempt < EnglishOnlineRetries - 1
       THEN req' = [req EXCEPT ![r].pc = "eo_try", ![r].attempt = @ + 1]
       ELSE req' = [req EXCEPT ![r] = EnterEnglishOffline([@ EXCEPT !.fallback_attempted = TRUE], EnglishOfflineFile(r))]
    /\ UNCHANGED <<response, cache_lock, abandoned, hist>>

(***************************************************************************)
(* generate_english_offline_tts, english_offline_tts.py                    *)
(***************************************************************************)
\* EfTry that does not wait for generation_complete of the worker before.
EfTryNoWait(r, init_ok) ==
    /\ req[r].pc \in {"ef_try", "ef_wait"}
    /\ UNCHANGED job
    /\ Len(hist[r].order) < EnglishOnlineRetries + EnglishOfflineRetries
    /\ hist' = [hist EXCEPT ![r] = Invoked(@, "en_offline")]
    /\ IF init_ok
       THEN req' = [req EXCEPT ![r].pc = "ef_wait", ![r].wav_file = WavOf(req[r].output_file)]
       ELSE req' = [req EXCEPT ![r].pc = "ef_except", ![r].wav_file = NoPath]
    /\ UNCHANGED <<response, fs, cache_lock, abandoned>>

\* Lines 153-211: pyttsx3.init; wav_file is chosen; the worker is started.
EfTry(r, init_ok) ==
    /\ req[r].pc = "ef_try"
    /\ UNCHANGED job
    /\ hist' = [hist EXCEPT ![r] = Invoked(@, "en_offline")]
    /\ IF init_ok
       THEN req' = [req EXCEPT ![r].pc = "ef_wait", ![r].wav_file = WavOf(req[r].output_file)]
       ELSE req' = [req EXCEPT ![r].pc = "ef_except", ![r].wav_file = NoPath]
    /\ UNCHANGED <<response, fs, cache_lock, abandoned>>

OfflineTooSmall(s) == s < MinSizeOffline

\* Lines 220-231: the validation of wav_file.
EfCheck(r) ==
    /\ req[r].pc = "ef_check"
    /\ UNCHANGED job
    /\ LET wav_file == req[r].wav_file
       IN IF \/ ~Exists(wav_file)
             \/ GetSize(wav_file) = 0
             \/ OfflineTooSmall(GetSize(wav_file))
          THEN req' = [req EXCEPT ![r].pc = "ef_except"]
          ELSE req' = [req EXCEPT ![r].pc = "validate", ![r].audio_path = wav_file]
    /\ UNCHANGED <<response, fs, cache_lock, abandoned, hist>>

\* Lines 233-255: cleanup, then the next attempt or the final raise, which
\* no handler but the outer one of app.py catches.
EfExcept(r) ==
    /\ req[r].pc = "ef_except"
    /\ UNCHANGED job
    /\ fs' = IF req[r].wav_file # NoPath THEN Remove(fs, req[r].wav_file) ELSE fs
    /\ IF req[r].attempt < EnglishOfflineRetries - 1
       THEN /\ req' = [req EXCEPT ![r].pc = "ef_try", ![r].attempt = @ + 1, ![r].wav_file = NoPath]
            /\ UNCHANGED response
       ELSE RaiseToApp(r, req[r])
    /\ UNCHANGED <<cache_lock, abandoned, hist>>

(***************************************************************************)
(* generate_urdu_tts, tts_urdu.py                                          *)
(***************************************************************************)
\* Lines 38-47, mode "online": the pre-flight, then gTTS.save(output_file).
UoReach(r, ok) ==
    /\ req[r].pc = "ur_try"
    /\ UNCHANGED job
    /\ req[r].fn_mode = "online"
    /\ IF ok
       THEN /\ hist' = [hist EXCEPT ![r] = Invoked(Reached(@, TRUE), "ur_online")]
            /\ fs' = [fs EXCEPT ![req[r].output_file] = File(0, "ur_online", FALSE, FALSE)]
            /\ req' = [req EXCEPT ![r].pc = "uo_save", ![r].overdue = FALSE]
       ELSE /\ hist' = [hist EXCEPT ![r] = Reached(Tried(@, "ur_online"), FALSE)]
            /\ req' = [req EXCEPT ![r].pc = "ur_except"]
            /\ UNCHANGED fs
    /\ UNCHANGED <<response, cache_lock, abandoned>>

\* Lines 49-50: the elapsed-time check after the online save.
UoCheck(r) ==
    /\ req[r].pc = "uo_check"
    /\ UNCHANGED job
    /\ IF req[r].overdue
       THEN req' = [req EXCEPT ![r].pc = "ur_except"]
       ELSE req' = [req EXCEPT ![r].pc = "ur_final"]
    /\ UNCHANGED <<response, fs, cache_lock, abandoned, hist>>

\* Lines 52-87, any other mode: pyttsx3.init, wav_file, the worker is started.
UlTry(r, init_ok) ==
    /\ req[r].pc = "ur_try"
    /\ UNCHANGED job
    /\ req[r].fn_mode # "online"
    /\ hist' = [hist EXCEPT ![r] = Invoked(@, "ur_offline")]
    /\ IF init_ok
       THEN req' = [req EXCEPT ![r].pc = "ul_wait", ![r].wav_file = WavOf(req[r].output_file)]
       ELSE req' = [req EXCEPT ![r].pc = "ur_except"]
    /\ UNCHANGED <<response, fs, cache_lock, abandoned>>

LocalResultOk(p) == Exists(p) /\ GetSize(p) > MinSizeUrduLocal /\ ~IsAudioSilent(p)

\* Lines 95-101: a good wav is returned; otherwise it is removed and the
\* function goes on to gTTS.
UlCheck(r) ==
    /\ req[r].pc = "ul_check"
    /\ UNCHANGED job
    /\ LET wav_file == req[r].wav_file
       IN IF LocalResultOk(wav_file)
          THEN /\ req' = [req EXCEPT ![r].pc = "validate", ![r].audio_path = wav_file]
               /\ UNCHANGED fs
          ELSE /\ req' = [req EXCEPT ![r].pc = "uf_reach"]
               /\ fs' = Remove(fs, wav_file)
    /\ UNCHANGED <<response, cache_lock, abandoned, hist>>

\* Lines 103-108: the pre-flight, mp3_file, gTTS.save(mp3_file).
UfReach(r, ok) ==
    /\ req[r].pc = "uf_reach"
    /\ UNCHANGED job
    /\ IF ok
       THEN /\ hist' = [hist EXCEPT ![r] = Invoked(Reached(@, TRUE), "ur_online")]
            /\ fs' = [fs EXCEPT ![Mp3Of(req[r].output_file)] = File(0, "ur_online", FALSE, FALSE)]
            /\ req' = [req EXCEPT ![r].pc = "uf_save", ![r].mp3_file = Mp3Of(req[r].output_file), ![r].overdue = FALSE]
       ELSE /\ hist' = [hist EXCEPT ![r] = Reached(Tried(@, "ur_online"), FALSE)]
            /\ req' = [req EXCEPT ![r].pc = "ur_except"]
            /\ UNCHANGED fs
    /\ UNCHANGED <<response, cache_lock, abandoned>>

UrduTooSmall(s) == s < MinSizeUrdu

\* Lines 118-129: the validation of output_file.
UrFinal(r) ==
    /\ req[r].pc = "ur_final"
    /\ UNCHANGED job
    /\ LET output_file == req[r].output_file
       IN IF \/ ~Exists(output_file)
             \/ GetSize(output_file) = 0
             \/ UrduTooSmall(GetSize(output_file))
          THEN req' = [req EXCEPT ![r].pc = "ur_except"]
          ELSE req' = [req EXCEPT ![r].pc = "validate", ![r].audio_path = output_file]
    /\ UNCHANGED <<response, fs, cache_lock, abandoned, hist>>

\* Lines 131-146: cleanup of output_file, then the next attempt or the final
\* raise: the online call of app.py line 210 is followed by the offline call
\* of line 215, any other call ends in the outer handler.
UrExcept(r) ==
    /\ req[r].pc = "ur_except"
    /\ UNCHANGED job
    /\ fs' = Remove(fs, req[r].output_file)
    /\ IF req[r].attempt < UrduRetries - 1
       THEN /\ req' = [req EXCEPT ![r].pc = "ur_try", ![r].attempt = @ + 1]
            /\ UNCHANGED response
       ELSE IF req[r].fn_mode = "online"
       THEN /\ req' = [req EXCEPT ![r] = EnterUrdu([@ EXCEPT !.fallback_attempted = TRUE], "offline", UrduOfflineFile(r))]
            /\ UNCHANGED response
       ELSE RaiseToApp(r, req[r])
    /\ UNCHANGED <<cache_lock, abandoned, hist>>

(***************************************************************************)
(* The environment: gTTS.save in progress, the pyttsx3 worker thread.      *)
(***************************************************************************)
SaveStates == {"eo_save", "uo_save", "uf_save"}
SaveTarget(f) == IF f.pc = "uf_save" THEN f.mp3_file ELSE f.output_file
SaveEngine(f) == IF f.pc = "eo_save" THEN "en_online" ELSE "ur_online"

\* The wall clock passes the 30 seconds while gTTS.save has not returned.
DeadlinePasses(r) ==
    /\ req[r].pc \in SaveStates
    /\ UNCHANGED job
    /\ ~req[r].overdue
    /\ req' = [req EXCEPT ![r].overdue = TRUE]
    /\ UNCHANGED <<response, fs, cache_lock, abandoned, hist>>

\* gTTS.save returns, s bytes written; tts_urdu.py line 109 follows the inner save.
SaveReturns(r, s) ==
    /\ req[r].pc \in SaveStates
    /\ UNCHANGED job
    /\ fs' = [fs EXCEPT ![SaveTarget(req[r])] = File(s, SaveEngine(req[r]), req[r].overdue, FALSE)]
    /\ LET f == req[r]
       IN req' = [req EXCEPT ![r] =
                 IF f.pc = "eo_save" THEN [f EXCEPT !.pc = "eo_check"]
                 ELSE IF f.pc = "uo_save" THEN [f EXCEPT !.pc = "uo_check"]
                 ELSE [f EXCEPT !.pc = "ur_final", !.output_file = f.mp3_file]]
    /\ UNCHANGED <<response, cache_lock, abandoned, hist>>

\* gTTS.save raises; the file it opened stays as it is.
SaveRaises(r) ==
    /\ req[r].pc \in SaveStates
    /\ UNCHANGED job
    /\ req' = [req EXCEPT ![r].pc = IF @ = "eo_save" THEN "eo_except" ELSE "ur_except"]
    /\ UNCHANGED <<response, fs, cache_lock, abandoned, hist>>

WaitStates == {"ef_wait", "ul_wait"}
WaitEngine(f) == IF f.pc = "ef_wait" THEN "en_offline" ELSE "ur_offline"
PathEngine(p) == IF p[1] = "english_offline" THEN "en_offline" ELSE "ur_offline"

\* The worker sets generation_complete within the 30 seconds, having left
\* `out` at wav_file (or nothing).
WorkerDone(r, out) ==
    /\ req[r].pc \in WaitStates
    /\ UNCHANGED job
    /\ fs' = IF out.exists THEN [fs EXCEPT ![req[r].wav_file] = out] ELSE fs
    /\ req' = [req EXCEPT ![r].pc = IF @ = "ef_wait" THEN "ef_check" ELSE "ul_check"]
    /\ UNCHANGED <<response, cache_lock, abandoned, hist>>

\* The worker reports generation_error within the 30 seconds.
WorkerError(r) ==
    /\ req[r].pc \in WaitStates
    /\ UNCHANGED job
    /\ req' = [req EXCEPT ![r].pc = IF @ = "ef_wait" THEN "ef_except" ELSE "ur_except"]
    /\ UNCHANGED <<response, fs, cache_lock, abandoned, hist>>

\* generation_complete.wait(timeout=30) returns False: the attempt raises and
\* the daemon thread is left running.
WaitTimeout(r) ==
    /\ req[r].pc \in WaitStates
    /\ UNCHANGED job
    /\ abandoned' = abandoned \cup {req[r].wav_file}
    /\ req' = [req EXCEPT ![r].pc = IF @ = "ef_wait" THEN "ef_except" ELSE "ur_except"]
    /\ UNCHANGED <<response, fs, cache_lock, hist>>

\* The cache directory is emptied from outside the program.
ClearCache ==
    /\ \E p \in Paths : p[1] = "tts_cache_english" /\ Exists(p)
    /\ UNCHANGED job
    /\ fs' = [p \in Paths |-> IF p[1] = "tts_cache_english" THEN NoFile ELSE fs[p]]
    /\ UNCHANGED <<req, response, cache_lock, abandoned, hist>>

\* An abandoned worker writes its wav file after all.
AbandonedWrites(p, out) ==
    /\ p \in abandoned
    /\ UNCHANGED job
    /\ out.exists
    /\ fs' = [fs EXCEPT ![p] = out]
    /\ abandoned' = abandoned \ {p}
    /\ UNCHANGED <<req, response, cache_lock, hist>>

Init ==
    /\ req = [r \in Reqs |-> Frame0]
    /\ response = [r \in Reqs |-> NoResponse]
    /\ fs = [p \in Paths |-> NoFile]
    /\ cache_lock = 0
    /\ abandoned = {}
    /\ hist = [r \in Reqs |-> Hist0]
    /\ job = NoJob

(***************************************************************************)
(* Properties.                                                             *)
(***************************************************************************)
\* The engine app.py selects first for (language, mode), and the other
\* engine of the same language.
PrimaryEngine(f) ==
    IF f.language = "ur"
    THEN IF f.mode = "online" THEN "ur_online" ELSE "ur_offline"
    ELSE IF f.mode = "online" THEN "en_online" ELSE "en_offline"
AlternateEngine(f) ==
    IF f.language = "ur"
    THEN IF f.mode = "online" THEN "ur_offline" ELSE "ur_online"
    ELSE IF f.mode = "online" THEN "en_offline" ELSE "en_online"
ValidationErrors == {"not_generated", "empty", "corrupted"}

\* C1: a request that succeeds although its primary engine was attempted and
\* did not produce the artifact is marked usedFallback, and the artifact was
\* produced by the alternate engine.
C1_FallbackMarked ==
    \A r \in Reqs :
        (/\ response[r].kind = "ok"
         /\ PrimaryEngine(req[r]) \in hist[r].tried
         /\ response[r].artifact.by # PrimaryEngine(req[r]))
        => (response[r].fallback /\ response[r].artifact.by = AlternateEngine(req[r]))

\* C2: a request whose engines raised never ends in failure without the
\* alternate engine of its language having been attempted.
C2_FailureTriedBoth ==
    \A r \in Reqs :
        (response[r].kind = "error" /\ response[r].error = "engine_failed")
        => AlternateEngine(req[r]) \in hist[r].tried

\* C3: once the alternate engine has been invoked in a request, the primary
\* engine is not invoked again in that request.
C3_NoPrimaryAfterAlternate ==
    \A r \in Reqs : \A i, j \in DOMAIN hist[r].order :
        (i < j /\ hist[r].order[i] = AlternateEngine(req[r]))
        => hist[r].order[j] # PrimaryEngine(req[r])

\* C4: the wait on an engine call is bounded by the call's deadline: no
\* request is still blocked in an engine call once the 30 seconds of that
\* call have passed (in a blocked state only the engine's return, never a
\* step of the handler, ends the wait).
C4_NoWaitPastDeadline ==
    \A r \in Reqs : ~(req[r].pc \in (SaveStates \cup WaitStates) /\ req[r].overdue)

\* C5: the artifact of a successful response was never written by an engine
\* call that finished after its deadline.
C5_LateNeverReturned ==
    \A r \in Reqs : response[r].kind = "ok" => ~response[r].artifact.late

\* C6: within one request no engine is invoked more often than its
\* configured number of attempts.
C6_AttemptBudget ==
    \A r \in Reqs :
        /\ Calls(r, "en_online") <= EnglishOnlineRetries
        /\ Calls(r, "en_offline") <= EnglishOfflineRetries
        /\ Calls(r, "ur_online") <= UrduRetries
        /\ Calls(r, "ur_offline") <= UrduRetries

C7_WitnessFallback ==
    \E r \in Reqs : response[r].kind = "ok" /\ response[r].fallback

\* C8: a request never ends with an error of the final validation (file
\* missing, empty or below 1000 bytes) on the output of an engine it invoked.
C8_SubThresholdRetried ==
    \A r \in Reqs :
        (response[r].kind = "error" /\ response[r].error \in ValidationErrors)
        => hist[r].order = <<>>

\* C9: a request is rejected as too long exactly when its trimmed text has
\* more than 5000 characters, and then nothing was looked up in the cache,
\* checked for reachability or invoked.
C9_TooLongRejectedFirst ==
    \A r \in Reqs :
        req[r].pc # "idle"
        => /\ (hist[r].chars > 5000) <=> (response[r].kind = "error" /\ response[r].error = "too_long")
           /\ response[r].error = "too_long"
              => /\ hist[r].lookups = 0 /\ hist[r].reach = 0
                 /\ hist[r].tried = {} /\ hist[r].order = <<>>
                 /\ req[r].pc = "done" /\ response[r].status = 400
C9_Witness ==
    \E r \in Reqs : response[r].error = "too_long" /\ hist[r].chars = 5001
C9_WitnessExact ==
    \E r \in Reqs : hist[r].chars = 5000 /\ response[r].kind = "ok"

\* C10: after a hit on a viable cache entry the request invokes no engine and
\* makes no reachability check; what it validates and returns is a copy of
\* the entry.
C10_CacheHitNoEngine ==
    \A r \in Reqs :
        LET cached == fs[CachedFile(req[r].text)] IN
        (hist[r].hit /\ cached.exists /\ cached.size >= 1000)
        => /\ hist[r].order = <<>>
           /\ hist[r].reach = 0
           /\ req[r].pc \in {"validate", "stream", "done"}
           /\ req[r].pc = "validate" => fs[req[r].audio_path] = cached
           /\ req[r].pc \in {"stream", "done"} => response[r] = OkResponse(cached, FALSE)
C10_Witness ==
    \E r \in Reqs : hist[r].hit /\ response[r].kind = "ok" /\ req[r].pc = "done"

\* C11: a request that repeats the (text, language) of a request that
\* succeeded invokes no engine and is not answered as a fallback result.
C11_RepeatServedFromCache ==
    \A r \in Reqs :
        hist[r].again
        => /\ hist[r].order = <<>>
           /\ ~response[r].fallback

\* C12: a cache lookup reports a hit only for an entry that meets the
\* viability threshold of /tts, and an entry whose copy /tts rejected is no
\* longer in the cache when the request has returned.
C12_HitRevalidated ==
    \A r \in Reqs :
        hist[r].hit
        => /\ req[r].pc = "validate" => GetSize(req[r].audio_path) >= MinSizeApp
           /\ response[r].error \in ValidationErrors => ~Exists(CachedFile(req[r].text))

\* C13: the lookup of a cache entry and the write of a cache entry never run
\* at the same time in two requests, an entry is unfinished only while the
\* request that writes it is inside its critical section, and what a hit
\* hands to the request is never an unfinished entry.
InCacheSection(r) == req[r].pc \in {"eo_lookup", "eo_copy", "eo_put"}
C13_CacheAccessExclusive ==
    /\ \A r1, r2 \in Reqs : (r1 # r2 /\ InCacheSection(r1)) => ~InCacheSection(r2)
    /\ \A k \in Keys :
          fs[<<"tts_cache_english", k, "mp3">>].by = "copy2"
          => \E r \in Reqs : req[r].pc = "eo_put" /\ GenerateCacheKey(req[r].text) = k
    /\ \A r \in Reqs :
          (hist[r].hit /\ req[r].pc \in {"validate", "stream"}) => fs[req[r].audio_path].by # "copy2"
C13_Witness ==
    \E r1, r2 \in Reqs :
        /\ req[r1].pc = "eo_put" /\ fs[CachedFile(req[r1].text)].by = "copy2"
        /\ req[r2].pc = "eo_lock" /\ req[r2].text = req[r1].text
C13_WitnessHit ==
    \E r1, r2 \in Reqs :
        /\ r1 # r2 /\ hist[r1].hit /\ req[r1].pc = "validate"
        /\ req[r2].pc = "eo_put_lock"

\* C14: the file whose path was returned to a request is that request's own:
\* while the request is about to stream it, it is still the file /tts
\* validated, whatever the other requests do.
C14_ArtifactIsPrivate ==
    \A r \in Reqs : req[r].pc = "stream" => fs[req[r].audio_path] = response[r].artifact

\* C15: no step changes a cache entry that exists and has at least the 1000
\* bytes /tts asks for (an entry valid by every threshold of the program).
C15_ValidEntryKept ==
    [][\A k \in Keys :
          LET cached_file == <<"tts_cache_english", k, "mp3">>
          IN (Exists(cached_file) /\ GetSize(cached_file) >= MinSizeApp) => fs'[cached_file] = fs[cached_file]]_vars

\* C16: once a request has returned an error, none of the files its engines
\* write to exists: neither the files named after the request (the Urdu mp3
\* and wav files, the English wav file) nor, if it went through
\* english_online_tts, that function's output file.
AttemptPaths(r) ==
    RequestPaths(r) \cup (IF hist[r].lookups > 0 THEN {OutputPath(req[r].text)} ELSE {})
C16_NoFileAfterFailure ==
    \A r \in Reqs :
        (req[r].pc = "done" /\ response[r].kind = "error")
        => \A p \in AttemptPaths(r) : ~Exists(p)

\* C17: the error of a failed request says "(fallback also failed)" exactly
\* when the alternate engine of the request was invoked during the request.
C17_FallbackStatedIffAttempted ==
    \A r \in Reqs :
        response[r].kind = "error"
        => (response[r].fallback <=> Calls(r, AlternateEngine(req[r])) > 0)

\* C18: once a reachability check of a request has failed, the request is
\* not in the attempt loop of a network-preferred call again: it has gone on
\* to the alternate engine without a further attempt of the network engine.
InNetworkLoop(f) ==
    \/ f.pc \in {"eo_try", "eo_save", "eo_check", "eo_put_lock", "eo_put"}
    \/ f.pc \in {"ur_try", "uo_save", "uo_check"} /\ f.fn_mode = "online"
C18_UnreachableNotRetried ==
    \A r \in Reqs : hist[r].unreachable => ~InNetworkLoop(req[r])

C19_WitnessEnglish ==
    \E r \in Reqs :
        /\ req[r].language = "en" /\ req[r].mode = "online"
        /\ hist[r].order = <<"en_online", "en_online", "en_online", "en_offline">>

\* C20: the step that completes a put leaves in the cache the artifact the
\* copy read, whether or not the fingerprint had an entry, and goes on to
\* return without an error; a lookup of a non-empty entry returns a copy equal
\* to the entry; and an entry changes in no step but the put of a request
\* for its text.  So a get returns what the last put stored.
PutOpens(r) == req[r].pc = "eo_put_lock" /\ req'[r].pc = "eo_put"
PutCompletes(r) == req[r].pc = "eo_put" /\ req'[r].pc # "eo_put"
GetReturns(r) == req[r].pc = "eo_copy" /\ req'[r].pc # "eo_copy"
C20_CacheRoundTrip ==
    [][/\ \A r \in Reqs :
            LET cached_file == CachedFile(req[r].text)
                output_path == req[r].output_file
            IN /\ (PutCompletes(r) /\ req[r].copied.exists)
                  => /\ fs'[cached_file] \in {req[r].copied, fs[output_path]}
                     /\ req'[r].pc = "validate" /\ req'[r].audio_path = output_path
                     /\ response'[r] = NoResponse
               /\ (GetReturns(r) /\ Exists(cached_file) /\ GetSize(cached_file) > 0)
                  => /\ req'[r].pc = "validate"
                     /\ fs'[req'[r].audio_path] = fs[cached_file]
                     /\ fs'[cached_file] = fs[cached_file]
       /\ \A k \in Keys :
            LET cached_file == <<"tts_cache_english", k, "mp3">>
            IN fs'[cached_file] # fs[cached_file]
               => \E r \in Reqs : GenerateCacheKey(req[r].text) = k /\ (PutOpens(r) \/ PutCompletes(r))]_vars
\* Two requests for one text have both stored their output: the second put
\* found the entry of the first.
C20_Witness ==
    \E r1, r2 \in Reqs :
        /\ r1 # r2 /\ req[r1].text = req[r2].text
        /\ \A r \in {r1, r2} :
              /\ req[r].pc = "validate" /\ req[r].audio_path = OutputPath(req[r].text)
              /\ hist[r].lookups = 1 /\ ~hist[r].hit
        /\ Exists(CachedFile(req[r1].text)) /\ GetSize(CachedFile(req[r1].text)) >= MinSizeOnline
\* A request has got from the cache what the other request has put.
C20_WitnessGet ==
    \E r1, r2 \in Reqs :
        /\ r1 # r2 /\ req[r1].text = req[r2].text
        /\ req[r1].pc = "validate" /\ hist[r1].hit
        /\ req[r2].pc \in {"validate", "stream"} /\ ~hist[r2].hit /\ req[r2].audio_path = OutputPath(req[r2].text)
        /\ fs[req[r1].audio_path] = fs[CachedFile(req[r1].text)]

\* C21: a request leaves its primary engine for the fallback only after the
\* primary engine was turned to (its reachability check or its attempts
\* failed); emptying the cache never sends a request to the fallback.
C21_ClearIsHarmless ==
    \A r \in Reqs : req[r].fallback_attempted => PrimaryEngine(req[r]) \in hist[r].tried

(***************************************************************************)
(* Specifications.  Spec: the server handles one request at a time (the    *)
(* abandoned workers still run beside it).                                 *)
(***************************************************************************)
Handler(r) ==
    \/ \E raw \in TextInputs, lang \in Languages, md \in Modes : Receive(r, raw, lang, md)
    \/ EoLock(r) \/ EoLookup(r) \/ EoCopy(r) \/ EoTry(r) \/ EoCheck(r) \/ EoPutLock(r) \/ EoPut(r) \/ EoExcept(r)
    \/ \E ok \in BOOLEAN : EoReach(r, ok) \/ UoReach(r, ok) \/ UfReach(r, ok)
    \/ \E init_ok \in BOOLEAN : EfTry(r, init_ok) \/ UlTry(r, init_ok)
    \/ EfCheck(r) \/ EfExcept(r)
    \/ UoCheck(r) \/ UlCheck(r) \/ UrFinal(r) \/ UrExcept(r)
    \/ Validate(r) \/ Stream(r) \/ NextRequest(r)

Environment(r) ==
    \/ DeadlinePasses(r)
    \/ \E s \in Sizes : SaveReturns(r, s)
    \/ SaveRaises(r)
    \/ \E out \in LocalOutputs(WaitEngine(req[r]), FALSE) : WorkerDone(r, out)
    \/ WorkerError(r)
    \/ WaitTimeout(r)

Background ==
    \E p \in abandoned : \E out \in LocalOutputs(PathEngine(p), TRUE) : AbandonedWrites(p, out)

SerialReqs == {1}

Next ==
    \/ \E r \in SerialReqs : Handler(r) \/ Environment(r)
    \/ Background

Spec == Init /\ [][Next]_vars

\* RepeatSpec: as Spec, and the client may send a text that succeeded again.
RepeatNext ==
    \/ Next
    \/ \E r \in SerialReqs, md \in Modes : Repeat(r, md)

RepeatSpec == Init /\ [][RepeatNext]_vars

\* ClearSpec: as Spec, and the cache directory may be emptied at any moment.
ClearNext ==
    \/ Next
    \/ ClearCache

ClearSpec == Init /\ [][ClearNext]_vars

\* SharedSpec: the threaded server (app.run, threaded by default) handles
\* NumThreads requests for the same English text, one in each thread, which
\* arrive at any time.
SharedText == [lead |-> 0, body |-> ShortLen, trail |-> 0]

SharedSizes == {MinSizeOnline, MinSizeApp}

SharedNext ==
    \/ \E r \in Reqs :
          \/ Receive(r, SharedText, "en", "online")
          \/ EoLock(r) \/ EoLookup(r) \/ EoCopy(r) \/ EoTry(r) \/ EoCheck(r) \/ EoPutLock(r) \/ EoPut(r) \/ EoExcept(r)
          \/ \E ok \in BOOLEAN : EoReach(r, ok)
          \/ EfTry(r, TRUE) \/ EfCheck(r) \/ EfExcept(r)
          \/ Validate(r) \/ Stream(r)
          \/ \E s \in SharedSizes : SaveReturns(r, s)
          \/ SaveRaises(r)
          \/ WorkerDone(r, File(MinSizeApp, "en_offline", FALSE, FALSE))
          \/ WorkerError(r)

SharedSpec == Init /\ [][SharedNext]_vars

(***************************************************************************)
(* The language stage: the /detect-language route of app.py and            *)
(* TextProcessor of module2_py.py, with its caller PipelineManager.        *)
(* A string is a sequence of characters, one character per class the code  *)
(* tells apart: a Latin letter, an Urdu letter of the route's list (line   *)
(* 164), an Urdu letter outside that list, a Devanagari letter, the blank, *)
(* the line break, the Urdu full stop and the full stop.                   *)
(***************************************************************************)
Latin == "a"
UrduListed == "ur_be"
UrduOther == "ur_pe"
Devanagari == "hi_ka"
Blank == " "
LineBreak == "nl"
UrduStop == "ur_stop"
FullStop == "."

Letters == {Latin, UrduListed, UrduOther, Devanagari}
UrduLetters == {UrduListed, UrduOther}
Whitespace == {Blank, LineBreak}
Chars == Letters \cup Whitespace \cup {UrduStop}
Strings == UNION {[1..n -> Chars] : n \in 0..MaxText}

CharsOf(s) == {s[i] : i \in 1..Len(s)}

\* str.strip()
RECURSIVE LStrip(_)
LStrip(s) == IF s # <<>> /\ Head(s) \in Whitespace THEN LStrip(Tail(s)) ELSE s
RECURSIVE RStrip(_)
RStrip(s) ==
    IF s # <<>> /\ s[Len(s)] \in Whitespace THEN RStrip(SubSeq(s, 1, Len(s) - 1)) ELSE s
StrStrip(s) == RStrip(LStrip(s))

\* str.replace(old, new) for single characters
StrReplace(s, old, new) == [i \in 1..Len(s) |-> IF s[i] = old THEN new ELSE s[i]]

\* re.sub(c+, c, text): a run of c becomes one c
RECURSIVE Squeeze(_, _)
Squeeze(s, c) ==
    IF Len(s) < 2 THEN s
    ELSE IF s[1] = c /\ s[2] = c THEN Squeeze(Tail(s), c)
    ELSE <<s[1]>> \o Squeeze(Tail(s), c)

\* TextProcessor.clean_text and combined_module_01.clean_text (the same body)
clean_text(s) == StrStrip(Squeeze(Squeeze(s, Blank), LineBreak))

\* langdetect.detect: raises LangDetectException on a text without letters;
\* otherwise proposes a language of one of the scripts in the text.
LangDetectException == "LangDetectException"
ScriptCodes(c) ==
    IF c = Latin THEN {"en", "fr"}
    ELSE IF c \in UrduLetters THEN {"ur", "ar", "fa"}
    ELSE IF c = Devanagari THEN {"hi"}
    ELSE {}
detect(s) ==
    IF CharsOf(s) \cap Letters = {} THEN {LangDetectException}
    ELSE UNION {ScriptCodes(c) : c \in CharsOf(s)}

\* Confidences in units of 1/100000.
ConfidenceCap == 95000
ConfidenceBase == 70000
ConfidencePerChar == 25
ConfidenceUnsupported == 60000
ConfidenceFailure == 50000
MinOf(a, b) == IF a < b THEN a ELSE b
LengthConfidence(s) == MinOf(ConfidenceCap, ConfidenceBase + MinOf(Len(s), 1000) * ConfidencePerChar)

\* app.py 164: the override of the route, as the code has it.
ScriptOverride(lang, text) ==
    IF lang \in {"hi", "ar"} /\ UrduListed \in CharsOf(text) THEN "ur" ELSE lang

\* app.py 150-184 with the classifier's outcome d.
DetectLanguageRoute(raw, d) ==
    LET text == StrStrip(raw)
    IN IF text = <<>> THEN [code |-> 400, error |-> "No text provided"]
       ELSE IF d = LangDetectException
       THEN [code |-> 200, language |-> "en", confidence |-> ConfidenceFailure]
       ELSE LET lang == ScriptOverride(d, text)
            IN IF lang \notin {"en", "ur"}
               THEN [code |-> 200, language |-> "en", confidence |-> ConfidenceUnsupported]
               ELSE [code |-> 200, language |-> lang, confidence |-> LengthConfidence(text)]

\* TextProcessor.detect_language without the except clause.
DetectLanguageUncaught(d) == d

\* TextProcessor.detect_language
DetectLanguage(d) == IF d = LangDetectException THEN "en" ELSE d

\* TextProcessor.prepare_text_for_tts that keeps the classifier's proposal.
PrepareTextForTtsAsProposed(text, d) ==
    [language |-> DetectLanguage(d), text |-> StrStrip(StrReplace(text, LineBreak, Blank))]

\* TextProcessor.prepare_text_for_tts with the classifier's outcome d.
PrepareTextForTts(text, d) ==
    LET lang == DetectLanguage(d)
    IN IF lang = "ur"
       THEN [language |-> "ur",
             text |-> StrStrip(StrReplace(StrReplace(text, UrduStop, FullStop), LineBreak, Blank))]
       ELSE [language |-> "en", text |-> StrStrip(StrReplace(text, LineBreak, Blank))]

\* PipelineManager.process_request from the reader's text to the engine call
\* (tts_manager.py 24-54); extract_text returns clean_text of what it read.
ProcessRequest(read, d) ==
    LET raw_text == clean_text(read)
    IN IF raw_text = <<>> \/ Len(raw_text) < 2
       THEN [returned |-> "None", engine_called |-> FALSE]
       ELSE LET prep_result == PrepareTextForTts(clean_text(raw_text), d)
            IN [returned |-> "audio_path", engine_called |-> TRUE,
                language |-> prep_result.language, final_text |-> prep_result.text]

TextJobs == [op : {"input"}, text : Strings]

\* POST /detect-language with the job's text.
DetectLanguageRequest ==
    /\ job.op = "input"
    /\ \E d \in detect(StrStrip(job.text)) :
           job' = [op |-> "detect_language_route", text |-> job.text,
                   proposed |-> IF StrStrip(job.text) = <<>> THEN "not_called" ELSE d,
                   result |-> DetectLanguageRoute(job.text, d)]
    /\ UNCHANGED <<req, response, fs, cache_lock, abandoned, hist>>

\* TextProcessor.detect_language(text)
DetectLanguageCall ==
    /\ job.op = "input"
    /\ \E d \in detect(job.text) :
           job' = [op |-> "detect_language", text |-> job.text, proposed |-> d,
                   result |-> [language |-> DetectLanguage(d)]]
    /\ UNCHANGED <<req, response, fs, cache_lock, abandoned, hist>>

\* TextProcessor.prepare_text_for_tts(text)
PrepareCall ==
    /\ job.op = "input"
    /\ \E d \in detect(job.text) :
           job' = [op |-> "prepare_text_for_tts", text |-> job.text, proposed |-> d,
                   result |-> PrepareTextForTts(job.text, d)]
    /\ UNCHANGED <<req, response, fs, cache_lock, abandoned, hist>>

\* PipelineManager.process_request on a document whose reader yields the text.
ProcessRequestCall ==
    /\ job.op = "input"
    /\ \E d \in detect(clean_text(clean_text(job.text))) :
           job' = [op |-> "process_request", text |-> job.text, proposed |-> d,
                   result |-> ProcessRequest(job.text, d)]
    /\ UNCHANGED <<req, response, fs, cache_lock, abandoned, hist>>

\* LanguageSpec: one call of the language stage on any string of the bound.
LanguageInit ==
    /\ req = [r \in Reqs |-> Frame0]
    /\ response = [r \in Reqs |-> NoResponse]
    /\ fs = [p \in Paths |-> NoFile]
    /\ cache_lock = 0
    /\ abandoned = {}
    /\ hist = [r \in Reqs |-> Hist0]
    /\ job \in TextJobs

LanguageNext ==
    \/ DetectLanguageRequest
    \/ DetectLanguageCall
    \/ PrepareCall
    \/ ProcessRequestCall

LanguageSpec == LanguageInit /\ [][LanguageNext]_vars

Supported == {"en", "ur"}
Decided == job.op \in {"detect_language_route", "prepare_text_for_tts"} /\ "language" \in DOMAIN job.result

\* C22 as stated: every decision of the route and of prepare_text_for_tts has
\* a supported language, and an unsupported proposal that is not overridden
\* yields en with confidence 0.60 in both.
C22_SupportedWithConfidence ==
    Decided =>
        /\ job.result.language \in Supported
        /\ (job.proposed \notin Supported \cup {LangDetectException} /\ job.result.language # "ur")
               => /\ job.result.language = "en"
                  /\ "confidence" \in DOMAIN job.result
                  /\ job.result.confidence = ConfidenceUnsupported

\* C22: every decision of the route and of prepare_text_for_tts has a
\* supported language for every outcome of the classifier; an unsupported
\* proposal that is not overridden yields en, with confidence 0.60 in the
\* route (prepare_text_for_tts returns no confidence).
C22_SupportedLanguage ==
    Decided =>
        /\ job.result.language \in Supported
        /\ (job.proposed \notin Supported \cup {LangDetectException} /\ job.result.language # "ur")
               => /\ job.result.language = "en"
                  /\ job.op = "detect_language_route" => job.result.confidence = ConfidenceUnsupported

C22_Witness ==
    /\ job.op = "prepare_text_for_tts"
    /\ job.proposed = "fa"
    /\ job.result.language = "en"

C22_WitnessRoute ==
    /\ job.op = "detect_language_route"
    /\ job.proposed = "fr"
    /\ job.result.language = "en"
    /\ job.result.confidence = ConfidenceUnsupported

\* Every letter of the text is an Urdu letter, and there is one.
UrduScript(text) ==
    /\ CharsOf(text) \cap Letters # {}
    /\ CharsOf(text) \cap Letters \subseteq UrduLetters

\* C23: a text whose letters are all Urdu script is resolved to ur by the
\* route and by prepare_text_for_tts, whatever the classifier proposes.
C23_UrduScriptResolvedUrdu ==
    (Decided /\ UrduScript(job.text)) => job.result.language = "ur"

\* The classifier was called and raised.
ClassifierRaised ==
    /\ job.op \in {"detect_language_route", "detect_language"}
    /\ job.proposed = LangDetectException

\* C24 as stated: when the classifier raises, the route and
\* TextProcessor.detect_language return en with confidence 0.50.
C24_FailureIsEnglishHalf ==
    ClassifierRaised =>
        /\ job.result.language = "en"
        /\ "confidence" \in DOMAIN job.result
        /\ job.result.confidence = ConfidenceFailure

\* C24: when the classifier raises, the route answers 200 with en and
\* confidence 0.50 and TextProcessor.detect_language returns en (it has no
\* confidence); neither passes the error on.
C24_FailureIsEnglish ==
    ClassifierRaised =>
        /\ job.result.language = "en"
        /\ job.op = "detect_language_route"
               => job.result.code = 200 /\ job.result.confidence = ConfidenceFailure

C24_Witness ==
    /\ ClassifierRaised
    /\ job.op = "detect_language"
    /\ job.result.language = "en"

C24_WitnessRoute ==
    /\ ClassifierRaised
    /\ job.op = "detect_language_route"
    /\ job.result.confidence = ConfidenceFailure

\* C30: prepare_text_for_tts never returns an empty text (it returns a text
\* that is non-empty after trimming, or fails), and process_request never
\* calls a synthesis engine with an empty text.
C30_PreparedTextNonEmpty ==
    /\ job.op = "prepare_text_for_tts" => StrStrip(job.result.text) # <<>>
    /\ (job.op = "process_request" /\ job.result.engine_called)
           => StrStrip(job.result.final_text) # <<>>

(***************************************************************************)
(* The extraction stage: text_extractor.extract_text_from_file (behind     *)
(* /upload), combined_module_01.extract_text (behind PipelineManager) and  *)
(* final_ocr_pipeline.extract_text.  A document is a file of some          *)
(* extension with a sequence of pages (paragraphs or slides for the other  *)
(* formats); each page has a text layer and what optical recognition       *)
(* yields on it.  The text of the layer of page i is the word              *)
(* LayerWords[i] and the recognized text of page i the word OcrWords[i].   *)
(***************************************************************************)
LayerWords == <<"layer1", "layer2", "layer3", "layer4">>
OcrWords == <<"ocr1", "ocr2", "ocr3", "ocr4">>
ConfigWords == <<"config1", "config2", "config3", "config4">>
\* Material clean_extracted_text removes: a bracketed fragment, a lone letter.
Noise == "(x)"

TextFormats == {".txt", ".docx", ".doc", ".pptx"}
ImageFormats == {".png", ".bmp"}
FileStates == {"missing", "too_large", "corrupt", "ok"}
Layers == {"none", "blank", "text"}
OcrOutcomes == {"raise", "empty", "text"}

PagesOf(n, outcomes) == [1..n -> [layer : Layers, ocr : outcomes]]
Documents ==
    [ext : {".pdf"}, file : FileStates, pages : UNION {PagesOf(n, OcrOutcomes) : n \in 0..MaxPages}]
    \cup [ext : TextFormats \cup {".xyz"}, file : FileStates,
          pages : UNION {PagesOf(n, {"empty"}) : n \in 0..MaxPages}]
    \cup [ext : ImageFormats, file : FileStates,
          pages : [1..1 -> [layer : {"none"}, ocr : OcrOutcomes]]]

\* The text layer of page i as the PDF libraries return it.
LayerText(doc, i) ==
    CASE doc.pages[i].layer = "none" -> <<>>
      [] doc.pages[i].layer = "blank" -> <<Blank>>
      [] OTHER -> <<LayerWords[i]>>

\* "\n".join(reader.readtext(...)) on page i.
OcrText(doc, i) == IF doc.pages[i].ocr = "text" THEN <<OcrWords[i]>> ELSE <<>>

Returned(text, readers) == [ok |-> TRUE, text |-> text, readers |-> readers]
Raised(class, message, readers) ==
    [ok |-> FALSE, raised |-> class, message |-> message, readers |-> readers]

\* "\n".join(parts)
RECURSIVE JoinLines(_)
JoinLines(parts) ==
    IF parts = <<>> THEN <<>>
    ELSE IF Len(parts) = 1 THEN parts[1]
    ELSE parts[1] \o <<LineBreak>> \o JoinLines(Tail(parts))

\* text += part + "\n" over the pages from i on
RECURSIVE AppendLines(_, _)
AppendLines(doc, i) ==
    IF i > Len(doc.pages) THEN <<>>
    ELSE LayerText(doc, i) \o <<LineBreak>> \o AppendLines(doc, i + 1)

\* text_extractor.py 12-59: the readers of .pdf, .docx, .pptx and .doc read
\* the text layer only and return text.strip().
TextExtractorReader(doc) ==
    IF doc.file = "corrupt" THEN Raised("ReaderError", "reader", {doc.ext})
    ELSE Returned(StrStrip(AppendLines(doc, 1)), {doc.ext})

\* What pytesseract yields for one language configuration: image_to_string
\* raises, or returns a text; image_to_data then raises (not measured) or
\* gives the average of the positive token confidences (0 when none is).
NumConfigs == 4
ConfLevels == {0, 50, 90}
ConfigTexts(i) == {<<Blank>>, <<Noise>>} \cup {[k \in 1..n |-> ConfigWords[i]] : n \in 1..MaxOcrLen}
ConfigOutcomes(i) ==
    {[kind |-> "raise", text |-> <<>>, measured |-> FALSE, conf |-> 0]}
    \cup {[kind |-> "text", text |-> <<Blank>>, measured |-> FALSE, conf |-> 0]}
    \cup [kind : {"text"}, text : ConfigTexts(i) \ {<<Blank>>}, measured : {TRUE}, conf : ConfLevels]
    \cup [kind : {"text"}, text : ConfigTexts(i) \ {<<Blank>>}, measured : {FALSE}, conf : {0}]
Recognitions ==
    {<<o1, o2, o3, o4>> : o1 \in ConfigOutcomes(1), o2 \in ConfigOutcomes(2),
                          o3 \in ConfigOutcomes(3), o4 \in ConfigOutcomes(4)}

\* text_extractor.py 218-262: bracketed fragments and lone letters become
\* blanks, runs of whitespace one blank, and the ends are trimmed.
clean_extracted_text(text) ==
    IF text = <<>> THEN <<>>
    ELSE StrStrip(Squeeze(StrReplace(StrReplace(text, Noise, Blank), LineBreak, Blank), Blank))

Best0 == [text |-> <<>>, confidence |-> 0, config |-> 0]

\* Lines 113-132: one pass of the loop over language_configs.
Consider(best, o, i) ==
    IF o.kind = "raise" \/ StrStrip(o.text) = <<>> THEN best
    ELSE IF o.measured
    THEN IF o.conf > best.confidence
         THEN [text |-> o.text, confidence |-> o.conf, config |-> i]
         ELSE best
    ELSE IF Len(StrStrip(o.text)) > Len(StrStrip(best.text))
         THEN [best EXCEPT !.text = o.text, !.config = i]
         ELSE best

RECURSIVE BestOf(_, _)
BestOf(rec, n) == IF n = 0 THEN Best0 ELSE Consider(BestOf(rec, n - 1), rec[n], n)

\* text_extractor.extract_text_from_image (61-149) on the outcomes rec.
TesseractImage(doc, rec) ==
    IF doc.file = "corrupt" THEN Raised("Exception", "OCR failed", {doc.ext})
    ELSE LET best == BestOf(rec, NumConfigs)
         IN IF StrStrip(best.text) = <<>>
            THEN Raised("Exception", "OCR failed", {doc.ext})
            ELSE Returned(clean_extracted_text(best.text), {doc.ext})

\* text_extractor.extract_text_from_file (168-216)
ExtractTextFromFile(doc, rec) ==
    IF doc.file = "missing" THEN Raised("ValueError", "Invalid file path", {})
    ELSE IF doc.file = "too_large" THEN Raised("ValueError", "File too large", {})
    ELSE LET r == IF doc.ext = ".txt" THEN Returned(AppendLines(doc, 1), {doc.ext})
                  ELSE IF doc.ext \in {".pdf", ".docx", ".doc", ".pptx"} THEN TextExtractorReader(doc)
                  ELSE IF doc.ext \in ImageFormats THEN TesseractImage(doc, rec)
                  ELSE Raised("ValueError", "Unsupported file type", {})
         IN IF r.ok THEN r
            ELSE Raised("Exception", "Failed to extract text", r.readers)

\* combined_module_01.extract_text_from_pdf lines 82-91: the pages with a
\* text layer, in page order.
RECURSIVE PagesWithText(_, _)
PagesWithText(doc, i) ==
    IF i > Len(doc.pages) THEN <<>>
    ELSE (IF LayerText(doc, i) # <<>> THEN <<LayerText(doc, i)>> ELSE <<>>)
         \o PagesWithText(doc, i + 1)

AllOcr(doc) == [i \in 1..Len(doc.pages) |-> OcrText(doc, i)]
OcrRaises(doc, pages) == \E i \in pages : doc.pages[i].ocr = "raise"

\* combined_module_01.extract_text_from_pdf (67-111)
CombinedPdf(doc) ==
    LET full_text == IF doc.file = "corrupt" THEN <<>> ELSE PagesWithText(doc, 1)
    IN IF full_text # <<>> THEN Returned(clean_text(JoinLines(full_text)), {".pdf"})
       ELSE IF doc.file = "corrupt" THEN Raised("ReaderError", "fitz.open", {".pdf"})
       ELSE IF OcrRaises(doc, 1..Len(doc.pages)) THEN Raised("ReaderError", "readtext", {".pdf"})
       ELSE Returned(clean_text(JoinLines(AllOcr(doc))), {".pdf"})

\* extract_text_from_image of combined_module_01 (47-61) and of
\* final_ocr_pipeline (23-37)
EasyOcrImage(doc) ==
    IF doc.file = "corrupt" \/ doc.pages[1].ocr = "raise"
    THEN Raised("ReaderError", "readtext", {doc.ext})
    ELSE Returned(clean_text(OcrText(doc, 1)), {doc.ext})

\* combined_module_01.extract_text_from_docx (30-41)
CombinedDocx(doc) ==
    Returned(clean_text(IF doc.file = "corrupt" THEN <<>> ELSE AppendLines(doc, 1)), {".docx"})

\* combined_module_01.extract_text (117-139)
CombinedExtractText(doc) ==
    IF doc.file = "missing" THEN Raised("FileNotFoundError", "File not found", {})
    ELSE IF doc.ext = ".pdf" THEN CombinedPdf(doc)
    ELSE IF doc.ext = ".docx" THEN CombinedDocx(doc)
    ELSE IF doc.ext = ".png" THEN EasyOcrImage(doc)
    ELSE Raised("ValueError", "Unsupported file type", {})

\* final_ocr_pipeline.extract_text_from_pdf lines 54-74: page_text per page.
FinalPageText(doc, i) ==
    IF StrStrip(LayerText(doc, i)) = <<>> THEN OcrText(doc, i) ELSE LayerText(doc, i)
ScannedPages(doc) == {i \in 1..Len(doc.pages) : StrStrip(LayerText(doc, i)) = <<>>}

\* final_ocr_pipeline.extract_text_from_pdf (43-76)
FinalPdf(doc) ==
    IF doc.file = "corrupt" THEN Raised("ReaderError", "fitz.open", {".pdf"})
    ELSE IF OcrRaises(doc, ScannedPages(doc)) THEN Raised("ReaderError", "readtext", {".pdf"})
    ELSE Returned(clean_text(JoinLines([i \in 1..Len(doc.pages) |-> FinalPageText(doc, i)])), {".pdf"})

\* final_ocr_pipeline.extract_text (82-99)
FinalExtractText(doc) ==
    IF doc.file = "missing" THEN Raised("FileNotFoundError", "File not found", {})
    ELSE IF doc.ext = ".png" THEN EasyOcrImage(doc)
    ELSE IF doc.ext = ".pdf" THEN FinalPdf(doc)
    ELSE Raised("ValueError", "Unsupported file type", {})

\* text_extractor.extract_text_from_file(path, ext) on the job's document.
ExtractTextFromFileCall ==
    /\ job.op = "document"
    /\ \E rec \in IF job.doc.ext \in ImageFormats /\ job.doc.file = "ok"
                  THEN Recognitions ELSE {<<>>} :
           job' = [op |-> "extract_text_from_file", doc |-> job.doc, rec |-> rec,
                   result |-> ExtractTextFromFile(job.doc, rec)]
    /\ UNCHANGED <<req, response, fs, cache_lock, abandoned, hist>>

\* combined_module_01.extract_text(path) on the job's document.
CombinedExtractTextCall ==
    /\ job.op = "document"
    /\ job' = [op |-> "combined_extract_text", doc |-> job.doc, rec |-> <<>>,
               result |-> CombinedExtractText(job.doc)]
    /\ UNCHANGED <<req, response, fs, cache_lock, abandoned, hist>>

\* final_ocr_pipeline.extract_text(path) on the job's document.
FinalExtractTextCall ==
    /\ job.op = "document"
    /\ job' = [op |-> "final_extract_text", doc |-> job.doc, rec |-> <<>>,
               result |-> FinalExtractText(job.doc)]
    /\ UNCHANGED <<req, response, fs, cache_lock, abandoned, hist>>

\* ExtractSpec: one call of an extraction entry point on any document of the
\* bounds.
ExtractInit ==
    /\ req = [r \in Reqs |-> Frame0]
    /\ response = [r \in Reqs |-> NoResponse]
    /\ fs = [p \in Paths |-> NoFile]
    /\ cache_lock = 0
    /\ abandoned = {}
    /\ hist = [r \in Reqs |-> Hist0]
    /\ job \in [op : {"document"}, doc : Documents]

ExtractNext ==
    \/ ExtractTextFromFileCall
    \/ CombinedExtractTextCall
    \/ FinalExtractTextCall

ExtractSpec == ExtractInit /\ [][ExtractNext]_vars

EntryPoints == {"extract_text_from_file", "combined_extract_text"}

\* C25: extract_text_from_file and combined_module_01.extract_text never
\* return a text that is empty after trimming; such an extraction fails.
C25_NoEmptySuccess ==
    (job.op \in EntryPoints /\ job.result.ok) => StrStrip(job.result.text) # <<>>

IsWord(c) == c \notin Whitespace
WordsOf(text) == SelectSeq(text, IsWord)

\* The segment page i owes the output: its text layer when that is not
\* blank, what recognition yields on it otherwise.
RECURSIVE PerPage(_, _)
PerPage(doc, i) ==
    IF i > Len(doc.pages) THEN <<>>
    ELSE (IF doc.pages[i].layer = "text" THEN <<LayerWords[i]>>
          ELSE IF doc.pages[i].ocr = "text" THEN <<OcrWords[i]>>
          ELSE <<>>)
         \o PerPage(doc, i + 1)

PdfExtracted ==
    /\ job.op \in {"extract_text_from_file", "combined_extract_text", "final_extract_text"}
    /\ job.doc.ext = ".pdf"
    /\ job.doc.file = "ok"

\* C26: on a PDF whose pages recognition can read, every PDF reader returns,
\* in page order, the text layer of each page that has one and the
\* recognized text of each page whose layer is empty or blank.
C26_DecidedPerPage ==
    (PdfExtracted /\ ~OcrRaises(job.doc, ScannedPages(job.doc)))
        => job.result.ok /\ WordsOf(job.result.text) = PerPage(job.doc, 1)

\* C27: when recognition raises on a scanned page of a PDF, the readers that
\* recognize (combined_module_01, final_ocr_pipeline) still return: the page
\* contributes nothing and the other pages contribute as usual.
C27_PageFailureContained ==
    (/\ PdfExtracted
     /\ job.op \in {"combined_extract_text", "final_extract_text"}
     /\ OcrRaises(job.doc, ScannedPages(job.doc)))
        => /\ job.result.ok
           /\ job.op = "final_extract_text" => WordsOf(job.result.text) = PerPage(job.doc, 1)

\* The extensions each entry point dispatches on.
SupportedBy(op) ==
    IF op = "extract_text_from_file" THEN {".txt", ".pdf", ".docx", ".doc", ".pptx"} \cup ImageFormats
    ELSE IF op = "combined_extract_text" THEN {".pdf", ".docx", ".png"}
    ELSE {".pdf", ".png"}

UnsupportedExtracted ==
    /\ job.op \in EntryPoints
    /\ job.doc.file \in {"ok", "corrupt"}
    /\ job.doc.ext \notin SupportedBy(job.op)

\* C28: extraction of a file with an unsupported extension fails with the
\* error of its own kind, ValueError "Unsupported file type", not with the
\* error that reports a failed extraction, and runs no reader.
C28_UnsupportedFormatKind ==
    UnsupportedExtracted
        => /\ ~job.result.ok
           /\ job.result.raised = "ValueError"
           /\ job.result.message = "Unsupported file type"
           /\ job.result.readers = {}

ImageExtracted ==
    /\ job.op = "extract_text_from_file"
    /\ job.doc.ext \in ImageFormats
    /\ job.doc.file = "ok"

Configs == 1..NumConfigs
Produced(rec, i) == rec[i].kind = "text" /\ StrStrip(rec[i].text) # <<>>
Measured(rec) == {i \in Configs : Produced(rec, i) /\ rec[i].measured}
Unmeasured(rec) == {i \in Configs : Produced(rec, i) /\ ~rec[i].measured}
Earliest(S) == CHOOSE i \in S : \A j \in S : i <= j
MostConfident(rec) ==
    Earliest({i \in Measured(rec) : \A j \in Measured(rec) : rec[j].conf <= rec[i].conf})
Longest(rec) ==
    Earliest({i \in Unmeasured(rec) :
                 \A j \in Unmeasured(rec) : Len(StrStrip(rec[j].text)) <= Len(StrStrip(rec[i].text))})

\* C29: image extraction succeeds whenever a configuration produced text that
\* is not blank; when the confidence of every such text was measured the
\* result is the text of the most confident one, the earliest on a tie, and
\* when none could be measured it is the longest one.
C29_BestConfigurationReturned ==
    ImageExtracted =>
        LET rec == job.rec
        IN /\ (Measured(rec) \cup Unmeasured(rec) # {}) => job.result.ok
           /\ (Measured(rec) # {} /\ Unmeasured(rec) = {})
                  => /\ job.result.ok
                     /\ job.result.text = clean_extracted_text(rec[MostConfident(rec)].text)
           /\ (Measured(rec) = {} /\ Unmeasured(rec) # {})
                  => /\ job.result.ok
                     /\ job.result.text = clean_extracted_text(rec[Longest(rec)].text)

(***************************************************************************)
(* Attempts of one request, and what abandoned workers leave.              *)
(***************************************************************************)
\* The request waits for a call of an engine: gTTS.save has not returned, or
\* the event of the pyttsx3 worker is neither set nor timed out.
Awaiting(f) == f.pc \in SaveStates \cup WaitStates
\* The step starts an attempt of r: an engine is invoked.
AttemptStarts(r) == Len(hist'[r].order) = Len(hist[r].order) + 1

\* C31: a request starts an attempt (of the same engine or of the fallback
\* engine) only when it is not waiting for an attempt: the outcome of the
\* attempt before (success, failure or timeout) has been determined.
C31_OneAttemptOutstanding ==
    [][\A r \in Reqs : AttemptStarts(r) => ~Awaiting(req[r])]_vars

\* The fallback engine is awaited after the three attempts of gTTS.
C31_Witness ==
    \E r \in Reqs :
        /\ req[r].pc = "ef_wait"
        /\ hist[r].order = <<"en_online", "en_online", "en_online", "en_offline">>

\* A second attempt of the local engine is awaited after the first timed out.
C31_WitnessTimeout ==
    \E r \in Reqs :
        /\ req[r].pc = "ef_wait"
        /\ req[r].attempt = 1
        /\ EnglishOfflineFile(r) \in abandoned

LocalEngines == {"en_offline", "ur_offline"}

\* C32: what a timed-out pyttsx3 worker writes late is discarded: the file a
\* request validates and returns is never a late output of a local engine,
\* and no timed-out worker is left to write to the wav file of the attempt
\* the request is in.
C32_LateOutputDiscarded ==
    \A r \in Reqs :
        /\ (req[r].pc \in {"validate", "stream"} /\ Exists(req[r].audio_path))
               => ~(fs[req[r].audio_path].by \in LocalEngines /\ fs[req[r].audio_path].late)
        /\ req[r].pc \in WaitStates \cup {"ef_check", "ul_check"}
               => req[r].wav_file \notin abandoned

(***************************************************************************)
(* The retry loops of english_online_tts, generate_english_offline_tts and *)
(* generate_urdu_tts as functions of max_retries: the attempts and the     *)
(* sleeps between them.                                                    *)
(***************************************************************************)
RetryFunctions == {"english_online_tts", "generate_english_offline_tts", "generate_urdu_tts"}

\* 2 ** n
RECURSIVE Pow2(_)
Pow2(n) == IF n = 0 THEN 1 ELSE 2 * Pow2(n - 1)

\* The seconds slept after the failed attempt (counted from 0):
\* tts_english_online.py 106, english_offline_tts.py 252, tts_urdu.py 143.
WaitTime(fn, attempt) == IF fn = "english_online_tts" THEN Pow2(attempt) * 1 ELSE 1

\* The calls: generate_urdu_tts takes the mode as well.
RetryCalls ==
    {c \in [fn : RetryFunctions, mode : Modes] :
        c.fn = "english_online_tts" => c.mode = "online"}
RetryLoops ==
    {[op |-> "retry_loop", fn |-> c.fn, mode |-> c.mode, max_retries |-> n,
      attempt |-> 0, pc |-> "try", waits |-> <<>>] :
        c \in {x \in RetryCalls : x.fn = "generate_english_offline_tts" => x.mode = "offline"},
        n \in 1..MaxRetriesBound}

\* The body of the try raises.
AttemptFails ==
    /\ job.op = "retry_loop"
    /\ job.pc = "try"
    /\ job' = [job EXCEPT !.pc = "except"]
    /\ UNCHANGED <<req, response, fs, cache_lock, abandoned, hist>>

\* The body of the try returns the file.
AttemptReturns ==
    /\ job.op = "retry_loop"
    /\ job.pc = "try"
    /\ job' = [job EXCEPT !.pc = "returned"]
    /\ UNCHANGED <<req, response, fs, cache_lock, abandoned, hist>>

\* The except clause: the sleep and the next pass of the loop, or the raise
\* after the loop.
ExceptSleeps ==
    /\ job.op = "retry_loop"
    /\ job.pc = "except"
    /\ IF job.attempt < job.max_retries - 1
       THEN job' = [job EXCEPT !.waits = Append(@, WaitTime(job.fn, job.attempt)),
                               !.attempt = @ + 1, !.pc = "try"]
       ELSE job' = [job EXCEPT !.pc = "raised"]
    /\ UNCHANGED <<req, response, fs, cache_lock, abandoned, hist>>

\* BackoffSpec: one call of a synthesis function with any max_retries of the
\* bound, its attempts failing or returning.
BackoffInit ==
    /\ req = [r \in Reqs |-> Frame0]
    /\ response = [r \in Reqs |-> NoResponse]
    /\ fs = [p \in Paths |-> NoFile]
    /\ cache_lock = 0
    /\ abandoned = {}
    /\ hist = [r \in Reqs |-> Hist0]
    /\ job \in RetryLoops

BackoffNext ==
    \/ AttemptFails
    \/ AttemptReturns
    \/ ExceptSleeps

BackoffSpec == BackoffInit /\ [][BackoffNext]_vars

\* C33: the sleep after the i-th failed attempt is 2^(i-1) seconds in every
\* synthesis function, for every max_retries, and the last attempt is not
\* followed by a sleep.
C33_ExponentialBackoff ==
    job.op = "retry_loop" =>
        /\ \A i \in 1..Len(job.waits) : job.waits[i] = Pow2(i - 1)
        /\ Len(job.waits) <= job.max_retries - 1
        /\ job.pc = "raised" => Len(job.waits) = job.max_retries - 1

\* No request is in the middle of its copy to the cache.
NoPutInProgress == \A r \in Reqs : req[r].pc # "eo_put"

\* C34: once a put is complete, every entry of the cache is an output of gTTS
\* that passed the checks of lines 70-82: at least 500 bytes, written within
\* the deadline.
C34_EntriesWereValidated ==
    NoPutInProgress =>
        \A k \in Keys :
            LET entry == fs[<<"tts_cache_english", k, "mp3">>]
            IN entry.exists => entry.by = "en_online" /\ entry.size >= MinSizeOnline /\ ~entry.late


\* The attempts app.py's first call makes on the engine it selects.
PrimaryRetries(f) == IF f.language = "ur" THEN UrduRetries ELSE EnglishOnlineRetries
PrimaryFailed(r) ==
    /\ PrimaryEngine(req[r]) \in hist[r].tried
    /\ hist[r].unreachable \/ Calls(r, PrimaryEngine(req[r])) >= PrimaryRetries(req[r])

\* C35: a response is marked as fallback only for an online request whose
\* primary (network) engine failed in that request, either at a reachability
\* check or in all its attempts; a successful response whose artifact is the
\* primary engine's output, or that was served from the cache, is not marked.
C35_FallbackOnlyAfterPrimaryFailure ==
    \A r \in Reqs :
        /\ response[r].fallback => req[r].mode = "online" /\ PrimaryFailed(r)
        /\ (response[r].kind = "ok"
                /\ (response[r].artifact.by = PrimaryEngine(req[r]) \/ hist[r].hit))
               => ~response[r].fallback

(***************************************************************************)
(* FairSpec: a request from its arrival to its response, and the same text *)
(* sent again after a success, with the scheduling the code relies on.     *)
(* The handler thread keeps running; gTTS.save returns or raises at some   *)
(* time (the network call is assumed to return); generation_complete.wait  *)
(* returns after 30 seconds at the latest.  Nothing is assumed of the      *)
(* client, of the abandoned workers or of the moment the deadline passes.  *)
(***************************************************************************)
NetworkReturns(r) == (\E s \in Sizes : SaveReturns(r, s)) \/ SaveRaises(r)
WaitReturns(r) ==
    \/ \E out \in LocalOutputs(WaitEngine(req[r]), FALSE) : WorkerDone(r, out)
    \/ WorkerError(r)
    \/ WaitTimeout(r)

\* The steps of the handler from the arrival of a request to its response.
OneRequest(r) ==
    \/ \E raw \in TextInputs, lang \in Languages, md \in Modes : Receive(r, raw, lang, md)
    \/ EoLock(r) \/ EoLookup(r) \/ EoCopy(r) \/ EoTry(r) \/ EoCheck(r) \/ EoPutLock(r) \/ EoPut(r) \/ EoExcept(r)
    \/ \E ok \in BOOLEAN : EoReach(r, ok) \/ UoReach(r, ok) \/ UfReach(r, ok)
    \/ \E init_ok \in BOOLEAN : EfTry(r, init_ok) \/ UlTry(r, init_ok)
    \/ EfCheck(r) \/ EfExcept(r)
    \/ UoCheck(r) \/ UlCheck(r) \/ UrFinal(r) \/ UrExcept(r)
    \/ Validate(r) \/ Stream(r)

FairNext ==
    \/ \E r \in SerialReqs : OneRequest(r) \/ Environment(r)
    \/ \E r \in SerialReqs, md \in Modes : Repeat(r, md)
    \/ Background

FairSpec ==
    /\ Init
    /\ [][FairNext]_vars
    /\ \A r \in SerialReqs : WF_vars(OneRequest(r)) /\ WF_vars(NetworkReturns(r)) /\ WF_vars(WaitReturns(r))

InProgress(f) == f.pc \notin {"idle", "done"}
Answered(r) == req[r].pc = "done" /\ response[r].kind # "none"
ResponseKept(r) ==
    \/ response'[r] = response[r]
    \/ response'[r] = NoResponse /\ req[r].pc = "done"

\* C36: a request that the handler has taken up is answered after finitely
\* many steps (its retry loops and its fallback end), and the response it
\* has produced is not replaced by another one before the next request.
C36_AnsweredOnce ==
    /\ \A r \in SerialReqs : InProgress(req[r]) ~> Answered(r)
    /\ [][\A r \in Reqs : response[r].kind # "none" => ResponseKept(r)]_vars
C36_Witness ==
    \E r \in Reqs :
        /\ Answered(r)
        /\ response[r].fallback
        /\ Calls(r, "en_online") = EnglishOnlineRetries
        /\ Calls(r, "en_offline") = EnglishOfflineRetries
====
